---- MODULE Spec2Model ----
(***************************************************************************)
(* rhai-rand: random number generation, sampling and shuffling for Rhai.   *)
(*                                                                         *)
(* The package is two plugin modules (src/src/lib.rs):                     *)
(*   array_functions : sample, sample_with_amount, shuffle                 *)
(*   rand_functions  : rand_bool, rand_bool_with_probability, rand,        *)
(*                     rand_exclusive_range, rand_inclusive_range,         *)
(*                     rand_from_to_inclusive, rand_float, rand_float_range*)
(* Every draw of the thread-local generator is a nondeterministic choice   *)
(* over the values the generator can yield.                                *)
(***************************************************************************)
EXTENDS Integers, Sequences, FiniteSets

(***************************************************************************)
(* Bounds of the model.                                                    *)
(***************************************************************************)
\* longest caller array
MaxLen == 3
\* distinct non-unit element values an array may hold
NumElems == 2
\* amounts passed to sample(array, amount) range over -MaxAmount..MaxAmount
MaxAmount == 4
\* INT arguments and results range over -MaxInt..MaxInt
MaxInt == 2
\* finite FLOAT values range over -FMax..FMax, counted in halves
FMax == 3

(***************************************************************************)
(* Values.                                                                 *)
(***************************************************************************)
\* Dynamic::UNIT, the value () of the scripting language; it is an ordinary
\* Dynamic value and may be an element of an array.
UNIT == 0

\* the Dynamic values an array element may be: () and NumElems other values
Dynamics == {UNIT} \cup (1..NumElems)

\* rhai::Array = Vec<Dynamic>
Arrays == UNION {[1..n -> Dynamics] : n \in 0..MaxLen}

\* rhai::INT
Ints == (-MaxInt)..MaxInt

Amounts == (-MaxAmount)..MaxAmount

\* `amount as usize`: a two's-complement reinterpretation. UsizeModulus stands
\* for 2^64; all the model uses of it is that a negative amount becomes a
\* value larger than every array length, and that a positive one is kept.
UsizeModulus == 65536

AsUsize(amount) == amount % UsizeModulus

(***************************************************************************)
(* Results of a call: Ok(value), Err(ErrorArithmetic(message)), or a panic *)
(* raised inside the rand crate.                                           *)
(***************************************************************************)
Ok(v) == [kind |-> "ok", val |-> v]

EmptyRange == [kind |-> "err", val |-> "Range is empty"]

InvalidProbability == [kind |-> "err", val |-> "Invalid probability"]

Panic == [kind |-> "panic", val |-> "rand"]

NoResult == [kind |-> "none", val |-> "none"]

(***************************************************************************)
(* rand::seq::SliceRandom, as the array functions use it.                  *)
(***************************************************************************)
\* a swap that writes only one of the two positions
Swap_OneSided(s, i, j) == [s EXCEPT ![i] = s[j]]

\* slice.swap(i, j)
Swap(s, i, j) == [s EXCEPT ![i] = s[j], ![j] = s[i]]

\* Fisher-Yates: for i in (1..len).rev() { swap(i, gen_index(rng, i + 1)) },
\* here with positions counted from 1: i runs from Len(s) down to 2 and the
\* partner j is drawn from 1..i. The set of arrays the loop can end in.
RECURSIVE ShuffleFrom(_, _)
ShuffleFrom(s, i) ==
    IF i < 2 THEN {s}
    ELSE UNION {ShuffleFrom(Swap(s, i, j), i - 1) : j \in 1..i}

\* slice.shuffle(&mut rng)
SliceShuffle(s) == ShuffleFrom(s, Len(s))

\* slice.choose(&mut rng): None on an empty slice, else the element at a
\* uniformly drawn index. The set of positions it can pick.
SliceChoose(s) == DOMAIN s

\* rand::seq::index::sample(rng, length, amount): amount distinct indices
IndexSample(length, amount) ==
    {idx \in [1..amount -> 1..length] :
        \A i, j \in 1..amount : i # j => idx[i] # idx[j]}

Min(a, b) == IF a <= b THEN a ELSE b

\* slice.choose_multiple(&mut rng, amount).cloned().collect()
SliceChooseMultiple(s, amount) ==
    LET m == Min(amount, Len(s))
    IN  {[i \in 1..m |-> s[idx[i]]] : idx \in IndexSample(Len(s), m)}

(***************************************************************************)
(* array_functions                                                         *)
(***************************************************************************)
\* sample(array) with its emptiness test inverted
sample_GuardInverted(arr) ==
    IF Len(arr) = 0
    THEN {arr[i] : i \in SliceChoose(arr)} \cup {UNIT}
    ELSE {UNIT}

\* sample(array): the Dynamic values the call can return
sample(arr) ==
    IF Len(arr) # 0
    THEN {arr[i] : i \in SliceChoose(arr)}
    ELSE {UNIT}

\* sample(array, amount) drawing each element by an independent choose(), so
\* that a position can be drawn twice
sample_with_amount_Repeating(arr, amount) ==
    IF Len(arr) = 0 \/ amount <= 0
    THEN {<< >>}
    ELSE LET n == AsUsize(amount)
         IN  IF n >= Len(arr)
             THEN SliceShuffle(arr)
             ELSE UNION {SliceShuffle([i \in 1..n |-> arr[idx[i]]]) :
                            idx \in [1..n -> SliceChoose(arr)]}

\* sample(array, amount) filling the result up to amount elements when the
\* array holds fewer, instead of stopping at the array's length
sample_with_amount_Unclamped(arr, amount) ==
    IF Len(arr) = 0 \/ amount <= 0
    THEN {<< >>}
    ELSE LET n == AsUsize(amount)
         IN  IF n >= Len(arr)
             THEN SliceShuffle([i \in 1..n |-> arr[((i - 1) % Len(arr)) + 1]])
             ELSE UNION {SliceShuffle(res) : res \in SliceChooseMultiple(arr, n)}

\* sample(array, amount) without the test of amount <= 0
sample_with_amount_NoAmountGuard(arr, amount) ==
    IF Len(arr) = 0
    THEN {<< >>}
    ELSE LET n == AsUsize(amount)
         IN  IF n >= Len(arr)
             THEN SliceShuffle(arr)
             ELSE UNION {SliceShuffle(res) : res \in SliceChooseMultiple(arr, n)}

\* sample(array, amount): the arrays the call can return
sample_with_amount(arr, amount) ==
    IF Len(arr) = 0 \/ amount <= 0
    THEN {<< >>}
    ELSE LET n == AsUsize(amount)
         IN  IF n >= Len(arr)
             THEN SliceShuffle(arr)
             ELSE UNION {SliceShuffle(res) : res \in SliceChooseMultiple(arr, n)}

\* sample(array) as a call on the caller's array (array: &mut Array): what
\* the array holds after the call, and the value returned. The function reads
\* the array (is_empty, choose) and clones the chosen element.
sample_call(arr) == {[array |-> arr, ret |-> r] : r \in sample(arr)}

\* sample(array, amount) shuffling the caller's array itself when the whole
\* array is asked for, and returning a clone of it
sample_with_amount_call_InPlace(arr, amount) ==
    IF Len(arr) = 0 \/ amount <= 0
    THEN {[array |-> arr, ret |-> << >>]}
    ELSE IF AsUsize(amount) >= Len(arr)
         THEN {[array |-> r, ret |-> r] : r \in SliceShuffle(arr)}
         ELSE {[array |-> arr, ret |-> r] : r \in sample_with_amount(arr, amount)}

\* sample(array, amount) as a call on the caller's array (array: &mut Array):
\* what the array holds after the call, and the array returned. Both shuffles
\* act on res, which is a clone of the array or a collection of clones of
\* its elements; the array itself is only read.
sample_with_amount_call(arr, amount) ==
    {[array |-> arr, ret |-> r] : r \in sample_with_amount(arr, amount)}

\* shuffle(array): the contents the caller's array can have after the call
shuffle(arr) == SliceShuffle(arr)

(***************************************************************************)
(* rhai::FLOAT. Finite values are counted in halves (FOne is 1.0), and the *)
(* three non-finite values of IEEE 754 are kept apart from them. Every     *)
(* comparison with NaN is false, as the comparison operators of f64 are.   *)
(***************************************************************************)
PosInf == 1000

NegInf == -1000

NaN == 2000

FZero == 0

FOne == 2

FiniteFloats == (-FMax)..FMax

Floats == FiniteFloats \cup {NegInf, PosInf, NaN}

IsFinite(x) == x \in FiniteFloats

\* x < y, x <= y, x > y, x >= y on f64
FLt(x, y) == x # NaN /\ y # NaN /\ x < y

FLe(x, y) == x # NaN /\ y # NaN /\ x <= y

FGt(x, y) == FLt(y, x)

FGe(x, y) == FLe(y, x)

(***************************************************************************)
(* rand::Rng, as the random functions use it.                              *)
(***************************************************************************)
\* rng.gen_bool(p): Bernoulli::new(p).unwrap() rejects every p outside
\* [0.0, 1.0], NaN included; p = 1.0 always yields true, p = 0.0 never does.
GenBool(p) ==
    IF ~(FLe(FZero, p) /\ FLt(p, FOne))
    THEN IF p = FOne THEN {Ok(TRUE)} ELSE {Panic}
    ELSE IF p = FZero THEN {Ok(FALSE)} ELSE {Ok(TRUE), Ok(FALSE)}

\* Range<INT>::is_empty and RangeInclusive<INT>::is_empty
RangeIsEmpty(start, end) == ~(start < end)

RangeInclusiveIsEmpty(start, end) == ~(start <= end)

\* rng.gen_range(start..end) on INT: panics on an empty range
GenRange(start, end) ==
    IF RangeIsEmpty(start, end) THEN {Panic}
    ELSE {Ok(v) : v \in start..(end - 1)}

\* rng.gen_range(start..=end) on INT: panics on an empty range
GenRangeInclusive(start, end) ==
    IF RangeInclusiveIsEmpty(start, end) THEN {Panic}
    ELSE {Ok(v) : v \in start..end}

\* rng.gen_range(start..=end) on FLOAT: both bounds can be drawn; panics on an
\* empty range (one with a NaN bound is empty) and on a non-finite bound
GenRangeInclusiveFloat(start, end) ==
    IF ~FLe(start, end) \/ ~IsFinite(start) \/ ~IsFinite(end) THEN {Panic}
    ELSE {Ok(v) : v \in start..end}

(***************************************************************************)
(* rand_functions: the results each call can have                          *)
(***************************************************************************)
\* rand_bool()
rand_bool == {Ok(TRUE), Ok(FALSE)}

\* rand(probability) clamping the probability into [0.0, 1.0]
rand_bool_with_probability_Clamping(probability) ==
    IF FLt(probability, FZero) THEN GenBool(FZero)
    ELSE IF FGt(probability, FOne) THEN GenBool(FOne)
    ELSE GenBool(probability)

\* rand(probability)
rand_bool_with_probability(probability) ==
    IF FLt(probability, FZero) \/ FGt(probability, FOne)
    THEN {InvalidProbability}
    ELSE GenBool(probability)

\* rand()
rand == {Ok(v) : v \in Ints}

\* rand(start..end)
rand_exclusive_range(start, end) ==
    IF RangeIsEmpty(start, end) THEN {EmptyRange}
    ELSE GenRange(start, end)

\* rand(start..=end) putting the bounds in order instead of refusing them
rand_inclusive_range_Swapping(start, end) ==
    IF RangeInclusiveIsEmpty(start, end) THEN GenRangeInclusive(end, start)
    ELSE GenRangeInclusive(start, end)

\* rand(start..=end)
rand_inclusive_range(start, end) ==
    IF RangeInclusiveIsEmpty(start, end) THEN {EmptyRange}
    ELSE GenRangeInclusive(start, end)

\* rand(start, end)
rand_from_to_inclusive(start, end) ==
    IF start >= end THEN {EmptyRange}
    ELSE GenRangeInclusive(start, end)

\* rand_float(): a value of [0.0, 1.0)
rand_float == {Ok(v) : v \in FZero..(FOne - 1)}

\* rand_float(start, end)
rand_float_range(start, end) ==
    IF FGe(start, end) THEN {EmptyRange}
    ELSE GenRangeInclusiveFloat(start, end)

(***************************************************************************)
(* State.                                                                  *)
(*   array  : the caller's array, handed to the array functions as &mut    *)
(*   orig   : the array as the script created it (history variable)        *)
(*   call   : the last call made, with its arguments                       *)
(*   result : what that call returned                                      *)
(***************************************************************************)
VARIABLES array, orig, call, result

vars == <<array, orig, call, result>>

Call(op, x, y) == [op |-> op, x |-> x, y |-> y]

NoCall == Call("none", 0, 0)

\* a script creates an array; nothing has been called yet
Init ==
    /\ array \in Arrays
    /\ orig = array
    /\ call = NoCall
    /\ result = NoResult

Sample ==
    /\ \E c \in sample_call(array) :
           /\ array' = c.array
           /\ result' = Ok(c.ret)
    /\ call' = Call("sample", 0, 0)
    /\ UNCHANGED orig

SampleWithAmount ==
    \E amount \in Amounts :
        /\ \E c \in sample_with_amount_call(array, amount) :
               /\ array' = c.array
               /\ result' = Ok(c.ret)
        /\ call' = Call("sample_with_amount", amount, 0)
        /\ UNCHANGED orig

Shuffle ==
    /\ array' \in shuffle(array)
    /\ call' = Call("shuffle", 0, 0)
    /\ result' = Ok(UNIT)
    /\ UNCHANGED orig

Next == Sample \/ SampleWithAmount \/ Shuffle

Spec == Init /\ [][Next]_vars

(***************************************************************************)
(* Calls of the random functions. They take no array: the script's array   *)
(* is left as it is.                                                       *)
(***************************************************************************)
\* a script that holds no array
InitRand ==
    /\ array = << >>
    /\ orig = << >>
    /\ call = NoCall
    /\ result = NoResult

RandBool ==
    /\ result' \in rand_bool
    /\ call' = Call("rand_bool", 0, 0)
    /\ UNCHANGED <<array, orig>>

RandBoolWithProbability(p) ==
    /\ result' \in rand_bool_with_probability(p)
    /\ call' = Call("rand_bool_with_probability", p, 0)
    /\ UNCHANGED <<array, orig>>

Rand ==
    /\ result' \in rand
    /\ call' = Call("rand", 0, 0)
    /\ UNCHANGED <<array, orig>>

RandExclusiveRange(start, end) ==
    /\ result' \in rand_exclusive_range(start, end)
    /\ call' = Call("rand_exclusive_range", start, end)
    /\ UNCHANGED <<array, orig>>

RandInclusiveRange(start, end) ==
    /\ result' \in rand_inclusive_range(start, end)
    /\ call' = Call("rand_inclusive_range", start, end)
    /\ UNCHANGED <<array, orig>>

RandFromToInclusive(start, end) ==
    /\ result' \in rand_from_to_inclusive(start, end)
    /\ call' = Call("rand_from_to_inclusive", start, end)
    /\ UNCHANGED <<array, orig>>

RandFloat ==
    /\ result' \in rand_float
    /\ call' = Call("rand_float", 0, 0)
    /\ UNCHANGED <<array, orig>>

RandFloatRange(start, end) ==
    /\ result' \in rand_float_range(start, end)
    /\ call' = Call("rand_float_range", start, end)
    /\ UNCHANGED <<array, orig>>

NextRand ==
    \/ RandBool
    \/ \E p \in Floats : RandBoolWithProbability(p)
    \/ Rand
    \/ \E start, end \in Ints : RandExclusiveRange(start, end)
    \/ \E start, end \in Ints : RandInclusiveRange(start, end)
    \/ \E start, end \in Ints : RandFromToInclusive(start, end)
    \/ RandFloat
    \/ \E start, end \in Floats : RandFloatRange(start, end)

SpecRand == InitRand /\ [][NextRand]_vars

(***************************************************************************)
(* Properties of the array functions.                                      *)
(***************************************************************************)
\* how often value e occurs in s
Count(s, e) == Cardinality({i \in DOMAIN s : s[i] = e})

\* s and t hold the same elements, each as often (equal as multisets)
SameMultiset(s, t) ==
    /\ Len(s) = Len(t)
    /\ \A e \in Dynamics : Count(s, e) = Count(t, e)

\* the ways to send positions 1..k to k different positions of 1..n
Injections(k, n) ==
    {f \in [1..k -> 1..n] : \A i, j \in 1..k : i # j => f[i] # f[j]}

\* the last call was sample(array, amount)
IsSampleWithAmount == call.op = "sample_with_amount"

\* C1: sample(array, k) with 0 < k < n returns an array of exactly k
\* elements, each copied from a different position of the input.
C1_SampleDistinctPositions ==
    (IsSampleWithAmount /\ 0 < call.x /\ call.x < Len(array)) =>
        /\ result.kind = "ok"
        /\ Len(result.val) = call.x
        /\ \E f \in Injections(call.x, Len(array)) :
               \A i \in 1..call.x : result.val[i] = array[f[i]]

\* a proper sample (0 < k < n) of an array with a repeated element was taken
C1_Witness ==
    /\ IsSampleWithAmount
    /\ call.x = 2
    /\ Len(array) = 3
    /\ array[1] = array[2]
    /\ array[2] # array[3]
    /\ result.kind = "ok"
    /\ Len(result.val) = 2

\* C2: sample(array, k) with k >= n on a non-empty array returns a
\* permutation of the input: length n, the same multiset of elements.
C2_SampleAllIsPermutation ==
    (IsSampleWithAmount /\ Len(array) > 0 /\ call.x >= Len(array)) =>
        /\ result.kind = "ok"
        /\ Len(result.val) = Len(array)
        /\ SameMultiset(result.val, array)

\* more was asked for than the array holds, and the copy came back reordered
C2_Witness ==
    /\ IsSampleWithAmount
    /\ Len(array) >= 2
    /\ call.x > Len(array)
    /\ result.kind = "ok"
    /\ result.val # array

\* C3: sample(array, k) returns the empty array, not an error, whenever the
\* array is empty or k <= 0.
C3_SampleEmptyResult ==
    (IsSampleWithAmount /\ (Len(array) = 0 \/ call.x <= 0)) =>
        result = Ok(<< >>)

\* a negative amount was asked of a non-empty array
C3_Witness ==
    /\ IsSampleWithAmount
    /\ Len(array) > 0
    /\ call.x < 0
    /\ result = Ok(<< >>)

\* C4: after any number of shuffle calls the array has the length and the
\* multiset of elements it was created with; an array of at most one
\* element is exactly as it was.
C4_ShufflePreservesMultiset ==
    /\ SameMultiset(array, orig)
    /\ Len(orig) <= 1 => array = orig

\* a shuffle has moved elements of the array
C4_Witness ==
    /\ call.op = "shuffle"
    /\ Len(array) = MaxLen
    /\ array # orig

\* C5 as stated: sample(array) returns () on an empty array; on a non-empty
\* array it returns a copy of an element of the array and never ().
C5_SampleNeverUnit ==
    call.op = "sample" =>
        /\ result.kind = "ok"
        /\ Len(array) = 0 => result.val = UNIT
        /\ Len(array) > 0 =>
               /\ \E i \in DOMAIN array : result.val = array[i]
               /\ result.val # UNIT

\* C5 amended: sample(array) returns () on an empty array; on a non-empty
\* array it returns a copy of an element at some position of the array (which
\* is () only when that element is itself ()).
C5_SampleReturnsElement ==
    call.op = "sample" =>
        /\ result.kind = "ok"
        /\ Len(array) = 0 => result.val = UNIT
        /\ Len(array) > 0 => \E i \in DOMAIN array : result.val = array[i]

\* an element was sampled from an array of several different elements
C5_Witness ==
    /\ call.op = "sample"
    /\ Len(array) >= 2
    /\ array[1] # array[2]
    /\ result = Ok(array[2])

(***************************************************************************)
(* Properties of the random functions.                                     *)
(***************************************************************************)
\* the three integer-range entry points
IntRangeOps ==
    {"rand_exclusive_range", "rand_inclusive_range", "rand_from_to_inclusive"}

\* C6: for every valid integer range, exclusive [a, b) with a < b or
\* inclusive [a, b] with a <= b, a draw returns a value within the bounds,
\* and every value within the bounds, the first and the last included, is a
\* possible result of that draw. This holds of every entry point.
C6_IntRangeDrawsCoverBounds ==
    LET a == call.x
        b == call.y
    IN  /\ (call.op = "rand_exclusive_range" /\ a < b) =>
               /\ result.kind = "ok"
               /\ a <= result.val /\ result.val < b
               /\ \A v \in a..(b - 1) :
                      ENABLED (RandExclusiveRange(a, b) /\ result' = Ok(v))
        /\ (call.op = "rand_inclusive_range" /\ a <= b) =>
               /\ result.kind = "ok"
               /\ a <= result.val /\ result.val <= b
               /\ \A v \in a..b :
                      ENABLED (RandInclusiveRange(a, b) /\ result' = Ok(v))
        /\ (call.op = "rand_from_to_inclusive" /\ a <= b) =>
               /\ result.kind = "ok"
               /\ a <= result.val /\ result.val <= b
               /\ \A v \in a..b :
                      ENABLED (RandFromToInclusive(a, b) /\ result' = Ok(v))

\* C7: a range draw returns the empty-range error when start > end, in
\* every mode, and when start = end for the exclusive forms (the exclusive
\* integer range and the float range).
C7_EmptyRangeIsError ==
    /\ (call.op \in IntRangeOps /\ call.x > call.y) => result = EmptyRange
    /\ (call.op = "rand_exclusive_range" /\ call.x = call.y) =>
           result = EmptyRange
    /\ (call.op = "rand_float_range" /\ FGt(call.x, call.y)) =>
           result = EmptyRange
    /\ (call.op = "rand_float_range" /\ call.x # NaN /\ call.x = call.y) =>
           result = EmptyRange

\* an inclusive range was drawn from with its bounds the wrong way round
C7_Witness ==
    /\ call.op = "rand_inclusive_range"
    /\ call.x > call.y
    /\ result = EmptyRange

\* C8: an inclusive integer draw with start = end succeeds and returns that
\* value, by rand(start..=end) and by rand(start, end).
C8_InclusiveSingleValue ==
    (/\ call.op \in {"rand_inclusive_range", "rand_from_to_inclusive"}
     /\ call.x = call.y)
        => result = Ok(call.x)

\* C9: for every (finite) start < end, rand_float(start, end) returns a
\* value r with start <= r < end; the upper bound is never returned.
C9_FloatRangeHalfOpen ==
    (/\ call.op = "rand_float_range"
     /\ IsFinite(call.x)
     /\ IsFinite(call.y)
     /\ FLt(call.x, call.y))
        => /\ result.kind = "ok"
           /\ FLe(call.x, result.val)
           /\ FLt(result.val, call.y)

\* C10: rand(p) returns the invalid-probability error for every p < 0.0 and
\* every p > 1.0, false for p = 0.0, true for p = 1.0, and a boolean for
\* every p of [0.0, 1.0].
C10_WeightedBool ==
    call.op = "rand_bool_with_probability" =>
        LET p == call.x
        IN  /\ (FLt(p, FZero) \/ FGt(p, FOne)) => result = InvalidProbability
            /\ p = FZero => result = Ok(FALSE)
            /\ p = FOne => result = Ok(TRUE)
            /\ (FLe(FZero, p) /\ FLe(p, FOne)) =>
                   /\ result.kind = "ok"
                   /\ result.val \in BOOLEAN

\* a probability just above 1.0 was refused
C10_Witness ==
    /\ call.op = "rand_bool_with_probability"
    /\ call.x = FOne + 1
    /\ result = InvalidProbability

(***************************************************************************)
(* Frame of the array functions, and totality of the weighted boolean.     *)
(***************************************************************************)
\* C11: sample(array) and sample(array, k) leave the caller's array as it
\* was, the same elements in the same order, for every array and every k;
\* only shuffle changes the array.
C11_SampleLeavesArray ==
    [][/\ call'.op \in {"sample", "sample_with_amount"} => array' = array
       /\ array' # array => call'.op = "shuffle"]_vars

\* the whole of a never-shuffled array was sampled, and the array returned is
\* in another order than the array itself
C11_Witness ==
    /\ IsSampleWithAmount
    /\ call.x = Len(array)
    /\ Len(array) = MaxLen
    /\ array = orig
    /\ result.kind = "ok"
    /\ result.val # array

\* C12: for every FLOAT p, NaN and the infinities included, rand(p) ends
\* with a boolean or with the invalid-probability error, and every p that is
\* not within [0.0, 1.0] gets the error (it never reaches gen_bool).
C12_WeightedBoolTotal ==
    call.op = "rand_bool_with_probability" =>
        LET p == call.x
        IN  /\ \/ result = InvalidProbability
               \/ (result.kind = "ok" /\ result.val \in BOOLEAN)
            /\ ~(FLe(FZero, p) /\ FLe(p, FOne)) => result = InvalidProbability

====
